---- MODULE Spec2Model ----
(***************************************************************************)
(* Model of src/src/components/ReportManager.tsx: the monthly payroll      *)
(* report of one employee (generateMonthlyReport), the balance formatter   *)
(* (formatBalance), the employee search filter (filteredEmployees), the    *)
(* payslip download (downloadReport) and the component state they read.    *)
(*                                                                         *)
(* Time values are the values of JavaScript Date objects, counted in       *)
(* minutes since 1970-01-01T00:00Z.  A date-only string 'YYYY-MM-DD' is    *)
(* the record [year, month, day] of its three fields, a month token        *)
(* 'YYYY-MM' the record [year, month].  Strings that are searched or       *)
(* printed are sequences of one-character strings.                         *)
(***************************************************************************)
EXTENDS Integers, Sequences, FiniteSets, TLC

VARIABLES
    utcOffset,              \* host time zone: local time = UTC + utcOffset minutes
    employees,              \* props.employees
    attendance,             \* props.attendance
    advances,               \* props.advances
    storedPayments,         \* documents of the external 'salaryPayments' collection
    salaryPayments,         \* useFirestore(...).data
    salaryPaymentsLoading,  \* useFirestore(...).loading
    selectedEmployee,       \* useState('')
    selectedMonth,          \* useState(current month)
    searchTerm,             \* useState('')
    lastDownload,           \* outcome of the last downloadReport call
    balance,                \* argument of a formatBalance call
    balanceText             \* its result

vars == <<utcOffset, employees, attendance, advances, storedPayments,
          salaryPayments, salaryPaymentsLoading, selectedEmployee,
          selectedMonth, searchTerm, lastDownload, balance, balanceText>>

(***************************************************************************)
(* Bounds of the model.                                                    *)
(***************************************************************************)
\* records in the three ledgers together, in the report specification
MaxRecords == 2
\* characters of a search term
MaxTermLen == 2
\* formatBalance is called with every multiple of BalanceStep up to
\* MaxBalanceSteps steps either side of zero
MaxBalanceSteps == 60

\* offsets of the host time zone: New York (EST), UTC, India
UtcOffsets == {-300, 0, 330}

\* months a report is asked for: a 31-day month that ends a year, a leap
\* February and a 30-day month
Months == {[year |-> 2023, month |-> 12], [year |-> 2024, month |-> 2],
           [year |-> 2024, month |-> 4]}

\* the absent value: null, undefined
Null == [absent |-> TRUE]

(***************************************************************************)
(* The calendar and the Date object.                                       *)
(***************************************************************************)
MinutesPerDay == 1440

IsLeapYear(y) == (y % 4 = 0 /\ y % 100 # 0) \/ y % 400 = 0

DaysInMonth(y, m) ==
    IF m = 2 THEN (IF IsLeapYear(y) THEN 29 ELSE 28)
    ELSE IF m \in {4, 6, 9, 11} THEN 30 ELSE 31

\* days from 1970-01-01 to January 1st of year y
DaysBeforeYear(y) ==
    365 * (y - 1970) + ((y - 1969) \div 4) - ((y - 1901) \div 100)
        + ((y - 1601) \div 400)

\* days from January 1st to the first day of month m, in a year that is
\* no leap year
DaysBeforeMonthCommon == <<0, 31, 59, 90, 120, 151, 181, 212, 243, 273, 304, 334>>

DaysBeforeMonth(y, m) ==
    DaysBeforeMonthCommon[m] + (IF m > 2 /\ IsLeapYear(y) THEN 1 ELSE 0)

\* day number (days since 1970-01-01) of a calendar date
DaysFromCivil(y, m, d) == DaysBeforeYear(y) + DaysBeforeMonth(y, m) + d - 1

\* the calendar date of a day number (from 1970 on): its year lies between
\* the years that years of 366 and of 365 days would give
CivilFromDays(n) ==
    LET y == CHOOSE yy \in (1970 + (n \div 366))..(1970 + (n \div 365)) :
                 DaysBeforeYear(yy) <= n /\ n < DaysBeforeYear(yy + 1)
        m == CHOOSE mm \in 1..12 :
                 /\ DaysBeforeMonth(y, mm) <= n - DaysBeforeYear(y)
                 /\ n - DaysBeforeYear(y) < DaysBeforeMonth(y, mm) + DaysInMonth(y, mm)
    IN  [year |-> y, month |-> m,
         day |-> n - DaysBeforeYear(y) - DaysBeforeMonth(y, m) + 1]

\* new Date('YYYY-MM-DD'): a date-only string is midnight UTC of that day
ParseDate(s) == DaysFromCivil(s.year, s.month, s.day) * MinutesPerDay

\* month + '-01'
FirstDayString(month) == [year |-> month.year, month |-> month.month, day |-> 1]

\* Date.prototype.getFullYear and getMonth: fields of the LOCAL date
\* (getMonth counts from 0)
getFullYear(t) == CivilFromDays((t + utcOffset) \div MinutesPerDay).year
getMonth(t) == CivilFromDays((t + utcOffset) \div MinutesPerDay).month - 1

\* new Date(year, monthIndex, day): LOCAL midnight; a monthIndex of 12 is
\* January of the next year and day 0 is the day before day 1
NewLocalDate(y, monthIndex, d) ==
    (DaysFromCivil(y + (monthIndex \div 12), (monthIndex % 12) + 1, 1) + d - 1)
        * MinutesPerDay - utcOffset

(***************************************************************************)
(* The records.  An optional customType that is missing is NoCustomType,   *)
(* an optional customAmount is a sequence of at most one number.           *)
(***************************************************************************)
NoCustomType == "undefined"
CustomTypes == {"ot", "half-day", "custom"}

AllEmployees ==
    << [id |-> "e1", name |-> <<"A", "s", "h", "a">>,
        designation |-> <<"M", "a", "s", "o", "n">>, dailyWage |-> 500,
        contactNumber |-> "9000000001"],
       [id |-> "e2", name |-> <<"R", "a", "m">>,
        designation |-> <<"H", "e", "l", "p", "e", "r">>, dailyWage |-> 700,
        contactNumber |-> "9000000002"],
       [id |-> "e3", name |-> <<"S", "a", "m">>,
        designation |-> <<"M", "a", "s", "o", "n">>, dailyWage |-> 600,
        contactNumber |-> "9000000003"] >>

RECURSIVE SumSeq(_)
SumSeq(s) == IF s = <<>> THEN 0 ELSE Head(s) + SumSeq(Tail(s))

\* the amounts of a list of advances or salary payments
Amounts(s) == [i \in DOMAIN s |-> s[i].amount]

(***************************************************************************)
(* generateMonthlyReport                                                   *)
(***************************************************************************)
\* employees.find(e => e.id === employeeId)
FindEmployee(employeeId) ==
    IF \E i \in DOMAIN employees : employees[i].id = employeeId
    THEN employees[CHOOSE i \in DOMAIN employees :
                       /\ employees[i].id = employeeId
                       /\ \A j \in 1..(i - 1) : employees[j].id # employeeId]
    ELSE Null

\* new Date(month + '-01')
monthStart(month) == ParseDate(FirstDayString(month))

\* new Date(monthStart.getFullYear(), monthStart.getMonth() + 1, 0)
monthEnd(start) == NewLocalDate(getFullYear(start), getMonth(start) + 1, 0)

\* InMonthRange with the lower end of the range forgotten
InMonthRangeNoStart(dateString, start, end) == ParseDate(dateString) <= end

\* the test the three filters share: the record's Date lies in
\* [monthStart, monthEnd]
InMonthRange(dateString, start, end) ==
    ParseDate(dateString) >= start /\ ParseDate(dateString) <= end

monthAttendance(employeeId, start, end) ==
    SelectSeq(attendance,
              LAMBDA a : a.employeeId = employeeId /\ InMonthRange(a.date, start, end))

monthAdvances(employeeId, start, end) ==
    SelectSeq(advances,
              LAMBDA a : a.employeeId = employeeId /\ InMonthRange(a.date, start, end))

monthSalaryPayments(employeeId, start, end) ==
    SelectSeq(salaryPayments,
              LAMBDA p : /\ p.employeeId = employeeId
                         /\ InMonthRange(p.paymentDate, start, end))

\* monthAttendance.filter(a => a.present).length
totalDaysWorked(records) == Len(SelectSeq(records, LAMBDA a : a.present))

\* baseWages with the daily wage added for every record, present or not
RECURSIVE baseWagesEveryRecord(_, _)
baseWagesEveryRecord(records, employee) ==
    IF records = <<>> THEN 0
    ELSE employee.dailyWage + baseWagesEveryRecord(Tail(records), employee)

\* the forEach loop: the daily wage once for every present record
RECURSIVE baseWages(_, _)
baseWages(records, employee) ==
    IF records = <<>> THEN 0
    ELSE (IF Head(records).present THEN employee.dailyWage ELSE 0)
         + baseWages(Tail(records), employee)

\* additionalEarnings with the customAmount added for present records only
RECURSIVE additionalEarningsWhenPresent(_)
additionalEarningsWhenPresent(records) ==
    IF records = <<>> THEN 0
    ELSE (IF /\ Head(records).present
             /\ Head(records).customAmount # <<>>
             /\ Head(records).customAmount[1] # 0
          THEN Head(records).customAmount[1] ELSE 0)
         + additionalEarningsWhenPresent(Tail(records))

\* the forEach loop: every truthy customAmount
RECURSIVE additionalEarnings(_)
additionalEarnings(records) ==
    IF records = <<>> THEN 0
    ELSE (IF Head(records).customAmount # <<>> /\ Head(records).customAmount[1] # 0
          THEN Head(records).customAmount[1] ELSE 0)
         + additionalEarnings(Tail(records))

totalWagesEarned(records, employee) ==
    baseWages(records, employee) + additionalEarnings(records)

totalAdvancesTaken(records) == SumSeq(Amounts(records))

totalSalaryPaid(records) == SumSeq(Amounts(records))

\* finalAmount with the salary already paid not deducted
finalAmountWithoutPayments(att, adv, pay, employee) ==
    totalWagesEarned(att, employee) - totalAdvancesTaken(adv)

finalAmount(att, adv, pay, employee) ==
    totalWagesEarned(att, employee) - totalAdvancesTaken(adv) - totalSalaryPaid(pay)

otRecords(records) == SelectSeq(records, LAMBDA r : r.customType = "ot")
\* halfDayRecords filtering on the overtime tag
halfDayRecordsAsOt(records) == SelectSeq(records, LAMBDA r : r.customType = "ot")
halfDayRecords(records) == SelectSeq(records, LAMBDA r : r.customType = "half-day")
customPaymentRecords(records) == SelectSeq(records, LAMBDA r : r.customType = "custom")

\* generateMonthlyReport with no early return: an employee that is not found
\* has a wage of nothing
generateMonthlyReportNoReturn(employeeId, month) ==
    LET employee == IF FindEmployee(employeeId) = Null
                    THEN [dailyWage |-> 0] ELSE FindEmployee(employeeId)
        start == monthStart(month)
        end == monthEnd(start)
        att == monthAttendance(employeeId, start, end)
        adv == monthAdvances(employeeId, start, end)
        pay == monthSalaryPayments(employeeId, start, end)
    IN  [employeeId |-> employeeId,
         month |-> month,
         totalDaysWorked |-> totalDaysWorked(att),
         baseWages |-> baseWages(att, employee),
         additionalEarnings |-> additionalEarnings(att),
         totalWagesEarned |-> totalWagesEarned(att, employee),
         totalAdvancesTaken |-> totalAdvancesTaken(adv),
         totalSalaryPaid |-> totalSalaryPaid(pay),
         finalAmount |-> finalAmount(att, adv, pay, employee),
         attendanceDetails |-> att,
         advanceDetails |-> adv,
         salaryPaymentDetails |-> pay,
         otRecords |-> otRecords(att),
         halfDayRecords |-> halfDayRecords(att),
         customPaymentRecords |-> customPaymentRecords(att)]

generateMonthlyReport(employeeId, month) ==
    LET employee == FindEmployee(employeeId)
        start == monthStart(month)
        end == monthEnd(start)
        att == monthAttendance(employeeId, start, end)
        adv == monthAdvances(employeeId, start, end)
        pay == monthSalaryPayments(employeeId, start, end)
    IN  IF employee = Null THEN Null
        ELSE [employeeId |-> employeeId,
              month |-> month,
              totalDaysWorked |-> totalDaysWorked(att),
              baseWages |-> baseWages(att, employee),
              additionalEarnings |-> additionalEarnings(att),
              totalWagesEarned |-> totalWagesEarned(att, employee),
              totalAdvancesTaken |-> totalAdvancesTaken(adv),
              totalSalaryPaid |-> totalSalaryPaid(pay),
              finalAmount |-> finalAmount(att, adv, pay, employee),
              attendanceDetails |-> att,
              advanceDetails |-> adv,
              salaryPaymentDetails |-> pay,
              otRecords |-> otRecords(att),
              halfDayRecords |-> halfDayRecords(att),
              customPaymentRecords |-> customPaymentRecords(att)]

(***************************************************************************)
(* formatBalance, over the currency formatter of utils/dateUtils           *)
(***************************************************************************)
DigitChars == <<"0", "1", "2", "3", "4", "5", "6", "7", "8", "9">>

\* the decimal digits of a natural number
RECURSIVE Digits(_)
Digits(n) ==
    IF n < 10 THEN <<DigitChars[n + 1]>>
    ELSE Digits(n \div 10) \o <<DigitChars[(n % 10) + 1]>>

\* the Indian grouping of the digits left of the last three: by twos
RECURSIVE GroupByTwo(_)
GroupByTwo(ds) ==
    IF Len(ds) <= 2 THEN ds
    ELSE GroupByTwo(SubSeq(ds, 1, Len(ds) - 2)) \o <<",">>
             \o SubSeq(ds, Len(ds) - 1, Len(ds))

GroupIndian(ds) ==
    IF Len(ds) <= 3 THEN ds
    ELSE GroupByTwo(SubSeq(ds, 1, Len(ds) - 3)) \o <<",">>
             \o SubSeq(ds, Len(ds) - 2, Len(ds))

\* the rupee sign
RupeeSign == "Rs"

\* formatCurrency: the en-IN rendering of a whole rupee amount, a negative
\* amount with a leading minus sign
formatCurrency(n) ==
    (IF n < 0 THEN <<"-">> ELSE <<>>) \o <<RupeeSign>>
        \o GroupIndian(Digits(IF n < 0 THEN -n ELSE n))

\* Math.abs
Abs(n) == IF n < 0 THEN -n ELSE n

\* formatBalance with Math.abs forgotten
formatBalanceSigned(b) ==
    IF b = 0 THEN formatCurrency(0) ELSE <<"+">> \o formatCurrency(b)

formatBalance(b) ==
    IF b = 0 THEN formatCurrency(0)
    ELSE IF b > 0 THEN <<"+">> \o formatCurrency(b)
    ELSE <<"+">> \o formatCurrency(Abs(b))

(***************************************************************************)
(* filteredEmployees                                                       *)
(***************************************************************************)
UpperCase == <<"A", "H", "M", "R", "S">>
LowerCase == <<"a", "h", "m", "r", "s">>

\* String.prototype.toLowerCase, on the letters the model uses
LowerChar(c) ==
    IF \E i \in DOMAIN UpperCase : UpperCase[i] = c
    THEN LowerCase[CHOOSE i \in DOMAIN UpperCase : UpperCase[i] = c]
    ELSE c

toLowerCase(s) == [i \in DOMAIN s |-> LowerChar(s[i])]

\* String.prototype.includes
includes(s, t) ==
    \E i \in 0..(Len(s) - Len(t)) : SubSeq(s, i + 1, i + Len(t)) = t

\* EmployeeMatches with the search term compared as typed
EmployeeMatchesTermAsTyped(employee) ==
    \/ includes(toLowerCase(employee.name), searchTerm)
    \/ includes(toLowerCase(employee.designation), searchTerm)

EmployeeMatches(employee) ==
    \/ includes(toLowerCase(employee.name), toLowerCase(searchTerm))
    \/ includes(toLowerCase(employee.designation), toLowerCase(searchTerm))

(***************************************************************************)
(* The constants of one render of the component: they are computed from    *)
(* the props and the state every time the component renders, and it        *)
(* renders after every change of either.                                   *)
(***************************************************************************)
filteredEmployees == SelectSeq(employees, EmployeeMatches)

selectedEmployeeData ==
    IF selectedEmployee # "" THEN FindEmployee(selectedEmployee) ELSE Null

monthlyReport ==
    IF selectedEmployee # ""
    THEN generateMonthlyReport(selectedEmployee, selectedMonth) ELSE Null

\* the condition of the report panel: monthlyReport && selectedEmployeeData
reportPanelShown == monthlyReport # Null /\ selectedEmployeeData # Null

(***************************************************************************)
(* downloadReport                                                          *)
(***************************************************************************)
NotCalled == [called |-> FALSE]
NothingSaved == [called |-> TRUE, saved |-> FALSE]

\* The text of the payslip, one element for each line of the template
\* literal: a line is a record of its fixed text and the values substituted
\* into it, and a line with nothing on it is EmptyLine.
EmptyLine == [text |-> ""]
Line(text) == [text |-> text]
ValueLine(text, value) == [text |-> text, value |-> value]

\* record.customAmount || 0
customAmountOrZero(record) ==
    IF record.customAmount = <<>> THEN 0 ELSE record.customAmount[1]

\* records.reduce((sum, record) => sum + (record.customAmount || 0), 0)
customAmountTotal(records) ==
    SumSeq([i \in DOMAIN records |-> customAmountOrZero(records[i])])

\* ${records.length > 0 ? `<text> (<length> ...): <total>` : ''}, followed by
\* the line break of the template
ConditionalLine(text, records) ==
    IF Len(records) > 0
    THEN [text |-> text, count |-> Len(records),
          value |-> formatCurrency(customAmountTotal(records))]
    ELSE EmptyLine

\* new Date(dateString).toLocaleDateString('en-IN'): the LOCAL calendar date
\* of midnight UTC of the day
toLocaleDateString(dateString) ==
    CivilFromDays((ParseDate(dateString) + utcOffset) \div MinutesPerDay)

\* new Date(selectedMonth).toLocaleDateString('en-IN', {month, year})
ReportPeriod ==
    LET local == toLocaleDateString(FirstDayString(selectedMonth))
    IN  [year |-> local.year, month |-> local.month]

\* list.map(line).join('\n') followed by the line break of the template: one
\* line for each record, and one empty line for an empty list
JoinedLines(lines) == IF lines = <<>> THEN <<EmptyLine>> ELSE lines

AttendanceLine(a) ==
    [text |-> "attendance", date |-> toLocaleDateString(a.date),
     presence |-> IF a.present THEN "Present" ELSE "Absent",
     customType |-> a.customType,
     value |-> IF customAmountOrZero(a) # 0
               THEN <<"+">> \o formatCurrency(customAmountOrZero(a))
               ELSE <<>>]

AdvanceLine(a) ==
    [text |-> "advance", date |-> toLocaleDateString(a.date),
     value |-> formatCurrency(a.amount), description |-> a.description]

SalaryPaymentLine(p) ==
    [text |-> "payment", date |-> toLocaleDateString(p.paymentDate),
     value |-> formatCurrency(p.amount), description |-> p.description]

reportContent ==
    LET report == monthlyReport
        employee == selectedEmployeeData
    IN
        << EmptyLine,
           Line("MONTHLY PAYSLIP REPORT"),
           Line("======================"),
           EmptyLine,
           Line("Employee Details:"),
           ValueLine("Name", employee.name),
           ValueLine("Designation", employee.designation),
           ValueLine("Contact", employee.contactNumber),
           ValueLine("Daily Wage", formatCurrency(employee.dailyWage)),
           EmptyLine,
           ValueLine("Report Period", ReportPeriod),
           EmptyLine,
           Line("EARNINGS BREAKDOWN:"),
           [text |-> "Base Wages", count |-> report.totalDaysWorked,
            rate |-> formatCurrency(employee.dailyWage),
            value |-> formatCurrency(report.baseWages)],
           ValueLine("Additional Earnings",
                     formatCurrency(report.additionalEarnings)),
           ConditionalLine("Overtime", report.otRecords),
           ConditionalLine("Half Days", report.halfDayRecords),
           ConditionalLine("Custom Payments", report.customPaymentRecords),
           ValueLine("Total Wages Earned", formatCurrency(report.totalWagesEarned)),
           EmptyLine,
           Line("DEDUCTIONS:"),
           ValueLine("Advances Taken", formatCurrency(report.totalAdvancesTaken)),
           ValueLine("Salary Already Paid", formatCurrency(report.totalSalaryPaid)),
           EmptyLine,
           Line("FINAL CALCULATION:"),
           ValueLine("Total Wages Earned", formatCurrency(report.totalWagesEarned)),
           ValueLine("Less: Advances", formatCurrency(report.totalAdvancesTaken)),
           ValueLine("Less: Salary Paid", formatCurrency(report.totalSalaryPaid)),
           ValueLine("Final Amount", formatBalance(report.finalAmount)),
           EmptyLine,
           Line("ATTENDANCE DETAILS:") >>
        \o JoinedLines([i \in DOMAIN report.attendanceDetails |->
                           AttendanceLine(report.attendanceDetails[i])])
        \o << EmptyLine, Line("ADVANCE DETAILS:") >>
        \o JoinedLines([i \in DOMAIN report.advanceDetails |->
                           AdvanceLine(report.advanceDetails[i])])
        \o << EmptyLine, Line("SALARY PAYMENT DETAILS:") >>
        \o JoinedLines([i \in DOMAIN report.salaryPaymentDetails |->
                           SalaryPaymentLine(report.salaryPaymentDetails[i])])
        \o << EmptyLine, Line("Generated on"), Line("    ") >>

Payslip ==
    LET report == monthlyReport IN
    [called |-> TRUE, saved |-> TRUE,
     fileName |-> <<selectedEmployeeData.name, selectedMonth>>,
     employee |-> selectedEmployeeData,
     report |-> report,
     finalAmountText |-> formatBalance(report.finalAmount),
     reportContent |-> reportContent]

downloadReport ==
    IF monthlyReport = Null \/ selectedEmployeeData = Null
    THEN NothingSaved
    ELSE Payslip

(***************************************************************************)
(* The inputs of the model.                                                *)
(***************************************************************************)
\* props.employees as the parent may pass it: everybody, or "e2" removed
EmployeeLists == {AllEmployees, <<AllEmployees[1], AllEmployees[3]>>}

Date(y, m, d) == [year |-> y, month |-> m, day |-> d]

\* the ledgers the component is mounted with
MountedAttendance ==
    << [id |-> 1, employeeId |-> "e1", date |-> Date(2024, 2, 1), present |-> TRUE,
        customType |-> NoCustomType, customAmount |-> <<>>],
       [id |-> 2, employeeId |-> "e1", date |-> Date(2024, 2, 15), present |-> FALSE,
        customType |-> "ot", customAmount |-> <<300>>],
       [id |-> 3, employeeId |-> "e1", date |-> Date(2024, 2, 29), present |-> TRUE,
        customType |-> NoCustomType, customAmount |-> <<>>],
       [id |-> 4, employeeId |-> "e2", date |-> Date(2023, 12, 31), present |-> TRUE,
        customType |-> "custom", customAmount |-> <<200>>],
       [id |-> 5, employeeId |-> "e3", date |-> Date(2024, 4, 10), present |-> TRUE,
        customType |-> "half-day", customAmount |-> <<>>] >>

MountedAdvances ==
    << [id |-> 1, employeeId |-> "e1", date |-> Date(2024, 2, 10), amount |-> 200,
        description |-> "advance"],
       [id |-> 2, employeeId |-> "e2", date |-> Date(2023, 12, 1), amount |-> 1000,
        description |-> "advance"] >>

\* contents of the salaryPayments collection
StoredPaymentLists ==
    { <<>>,
      << [id |-> 1, employeeId |-> "e1", paymentDate |-> Date(2024, 2, 5),
          amount |-> 300, description |-> "part"],
         [id |-> 2, employeeId |-> "e1", paymentDate |-> Date(2024, 2, 29),
          amount |-> 500, description |-> "rest"],
         [id |-> 3, employeeId |-> "e3", paymentDate |-> Date(2024, 4, 30),
          amount |-> 400, description |-> "part"] >> }

\* search terms the user types
TermChars == {"a", "S"}
SearchTerms == UNION {[1..n -> TermChars] : n \in 0..MaxTermLen}

\* the days around the two ends of a month: the last day of the month
\* before, the first day, the last day, the first day of the month after
BoundaryDates(month) ==
    LET first == DaysFromCivil(month.year, month.month, 1)
        last == first + DaysInMonth(month.year, month.month) - 1
    IN  {CivilFromDays(n) : n \in {first - 1, first, last, last + 1}}

\* the employee and date of the records of the report specification: the
\* first employee on every boundary date, the second on the first day
OwnersAndDates(month) ==
    {<<"e1", d>> : d \in BoundaryDates(month)} \cup {<<"e2", FirstDayString(month)>>}

\* the customType and customAmount of those records: neither, an amount
\* with no type, and every type with an amount
TypesAndAmounts ==
    {<<NoCustomType, <<>>>>, <<NoCustomType, <<300>>>>}
        \cup {<<t, <<300>>>> : t \in CustomTypes}

\* attendance records of the report specification: a plain present day for
\* every owner and date and, for the first employee on the first day of the
\* month, present or absent with every customType and customAmount above
AttendanceInputs(month) ==
    {[employeeId |-> od[1], date |-> od[2], present |-> TRUE,
      customType |-> NoCustomType, customAmount |-> <<>>] :
         od \in OwnersAndDates(month)}
    \cup
    {[employeeId |-> "e1", date |-> FirstDayString(month), present |-> p,
      customType |-> ta[1], customAmount |-> ta[2]] :
         p \in BOOLEAN, ta \in TypesAndAmounts}

AdvanceInputs(month) ==
    {[employeeId |-> od[1], date |-> od[2], amount |-> 200,
      description |-> "advance"] : od \in OwnersAndDates(month)}

PaymentInputs(month) ==
    {[employeeId |-> od[1], paymentDate |-> od[2], amount |-> 700,
      description |-> "salary"] : od \in OwnersAndDates(month)}

\* the lists of n records of a set, each record with its position as its id
RecordLists(S, n) ==
    {[i \in 1..n |-> [id |-> i] @@ s[i]] : s \in [1..n -> S]}

BalanceStep == 2500
Balances == {k * BalanceStep : k \in (0 - MaxBalanceSteps)..MaxBalanceSteps}

(***************************************************************************)
(* The component: its state after the first render and its handlers.       *)
(***************************************************************************)
NoFormatCall == balance = 0 /\ balanceText = <<>>

Init ==
    /\ utcOffset \in UtcOffsets
    /\ employees = AllEmployees
    /\ attendance = MountedAttendance
    /\ advances = MountedAdvances
    /\ storedPayments \in StoredPaymentLists
    /\ salaryPayments = <<>>
    /\ salaryPaymentsLoading = TRUE
    /\ selectedEmployee = ""
    /\ selectedMonth \in Months
    /\ searchTerm = <<>>
    /\ lastDownload = NotCalled
    /\ NoFormatCall

\* onClick of an employee card: setSelectedEmployee(employee.id)
SelectEmployee(i) ==
    /\ i \in DOMAIN filteredEmployees
    /\ selectedEmployee' = filteredEmployees[i].id
    /\ UNCHANGED <<utcOffset, employees, attendance, advances, storedPayments,
                   salaryPayments, salaryPaymentsLoading, selectedMonth, searchTerm,
                   lastDownload, balance, balanceText>>

\* onChange of the month input: setSelectedMonth(e.target.value)
SetSelectedMonth(month) ==
    /\ selectedMonth' = month
    /\ UNCHANGED <<utcOffset, employees, attendance, advances, storedPayments,
                   salaryPayments, salaryPaymentsLoading, selectedEmployee, searchTerm,
                   lastDownload, balance, balanceText>>

\* setSearchTerm that also drops the employees the term does not match from
\* the employees collection
SetSearchTermSplicing(term) ==
    /\ searchTerm' = term
    /\ employees' = SelectSeq(employees,
                              LAMBDA employee :
                                  \/ includes(toLowerCase(employee.name), toLowerCase(term))
                                  \/ includes(toLowerCase(employee.designation),
                                              toLowerCase(term)))
    /\ UNCHANGED <<utcOffset, attendance, advances, storedPayments,
                   salaryPayments, salaryPaymentsLoading, selectedEmployee,
                   selectedMonth, lastDownload, balance, balanceText>>

\* setSearchTerm that also clears the selection when the selected employee
\* does not match the term
SetSearchTermClearingSelection(term) ==
    /\ searchTerm' = term
    /\ selectedEmployee' =
           IF \E i \in DOMAIN employees :
                  /\ employees[i].id = selectedEmployee
                  /\ \/ includes(toLowerCase(employees[i].name), toLowerCase(term))
                     \/ includes(toLowerCase(employees[i].designation),
                                 toLowerCase(term))
           THEN selectedEmployee
           ELSE ""
    /\ UNCHANGED <<utcOffset, employees, attendance, advances, storedPayments,
                   salaryPayments, salaryPaymentsLoading,
                   selectedMonth, lastDownload, balance, balanceText>>

\* onChange of the search box: setSearchTerm(e.target.value)
SetSearchTerm(term) ==
    /\ searchTerm' = term
    /\ UNCHANGED <<utcOffset, employees, attendance, advances, storedPayments,
                   salaryPayments, salaryPaymentsLoading, selectedEmployee,
                   selectedMonth, lastDownload, balance, balanceText>>

\* the one-shot load of the salaryPayments collection resolves
SalaryPaymentsLoaded ==
    /\ salaryPaymentsLoading
    /\ salaryPayments' = storedPayments
    /\ salaryPaymentsLoading' = FALSE
    /\ UNCHANGED <<utcOffset, employees, attendance, advances, storedPayments,
                   selectedEmployee, selectedMonth, searchTerm, lastDownload,
                   balance, balanceText>>

\* the parent renders the component with another employees prop
EmployeesChange(list) ==
    /\ list # employees
    /\ employees' = list
    /\ UNCHANGED <<utcOffset, attendance, advances, storedPayments, salaryPayments,
                   salaryPaymentsLoading, selectedEmployee, selectedMonth, searchTerm,
                   lastDownload, balance, balanceText>>

\* a call of downloadReport
DownloadReport ==
    /\ lastDownload' = downloadReport
    /\ UNCHANGED <<utcOffset, employees, attendance, advances, storedPayments,
                   salaryPayments, salaryPaymentsLoading, selectedEmployee,
                   selectedMonth, searchTerm, balance, balanceText>>

Next ==
    \/ \E i \in 1..Len(AllEmployees) : SelectEmployee(i)
    \/ \E month \in Months : SetSelectedMonth(month)
    \/ \E term \in SearchTerms : SetSearchTerm(term)
    \/ SalaryPaymentsLoaded
    \/ \E list \in EmployeeLists : EmployeesChange(list)
    \/ DownloadReport

Spec == Init /\ [][Next]_vars

(***************************************************************************)
(* The report specification: the component with its ledgers loaded, for    *)
(* every choice of at most MaxRecords records, and an employee selected.   *)
(***************************************************************************)
InitReport ==
    /\ utcOffset \in UtcOffsets
    /\ employees = <<AllEmployees[1], AllEmployees[2]>>
    /\ selectedMonth \in Months
    /\ \E na, nv, np \in 0..MaxRecords :
          /\ na + nv + np <= MaxRecords
          /\ attendance \in RecordLists(AttendanceInputs(selectedMonth), na)
          /\ advances \in RecordLists(AdvanceInputs(selectedMonth), nv)
          /\ storedPayments \in RecordLists(PaymentInputs(selectedMonth), np)
    /\ salaryPayments = storedPayments
    /\ salaryPaymentsLoading = FALSE
    /\ selectedEmployee = ""
    /\ searchTerm = <<>>
    /\ lastDownload = NotCalled
    /\ NoFormatCall

NextReport == \E i \in 1..Len(AllEmployees) : SelectEmployee(i)

SpecReport == InitReport /\ [][NextReport]_vars

(***************************************************************************)
(* The formatter specification: formatBalance called with every balance.   *)
(***************************************************************************)
InitFormat ==
    /\ utcOffset = 0
    /\ employees = AllEmployees
    /\ attendance = <<>>
    /\ advances = <<>>
    /\ storedPayments = <<>>
    /\ salaryPayments = <<>>
    /\ salaryPaymentsLoading = FALSE
    /\ selectedEmployee = ""
    /\ selectedMonth = [year |-> 2024, month |-> 2]
    /\ searchTerm = <<>>
    /\ lastDownload = NotCalled
    /\ balance \in Balances
    /\ balanceText = <<>>

FormatBalance ==
    /\ balanceText' = formatBalance(balance)
    /\ UNCHANGED <<utcOffset, employees, attendance, advances, storedPayments,
                   salaryPayments, salaryPaymentsLoading, selectedEmployee,
                   selectedMonth, searchTerm, lastDownload, balance>>

NextFormat == FormatBalance

SpecFormat == InitFormat /\ [][NextFormat]_vars

(***************************************************************************)
(* Vocabulary of the properties, stated on the calendar and on the         *)
(* records, apart from the Date arithmetic of the component.               *)
(***************************************************************************)
\* the date string names a day of the month token
InCalendarMonth(dateString, month) ==
    dateString.year = month.year /\ dateString.month = month.month

\* the date string names the first or the last day of the month token
OnMonthBoundary(dateString, month) ==
    /\ InCalendarMonth(dateString, month)
    /\ dateString.day \in {1, DaysInMonth(month.year, month.month)}

\* the record of a list that has the id
Listed(list, record) == \E i \in DOMAIN list : list[i].id = record.id

\* sum of f[i] over the indices i of a list
RECURSIVE TotalUpTo(_, _)
TotalUpTo(f, n) == IF n = 0 THEN 0 ELSE TotalUpTo(f, n - 1) + f[n]
Total(f) == TotalUpTo(f, Len(f))

\* what a customAmount adds: nothing when it is missing
AmountOf(record) ==
    IF record.customAmount = <<>> THEN 0 ELSE record.customAmount[1]

\* the selected employee is nobody, or nobody of props.employees
NoEmployeeResolves ==
    selectedEmployee = "" \/ \A i \in DOMAIN employees : employees[i].id # selectedEmployee

(***************************************************************************)
(* Properties of generateMonthlyReport (specification SpecReport).         *)
(***************************************************************************)
\* C1: in every report totalWagesEarned = baseWages + additionalEarnings and
\* finalAmount = totalWagesEarned - totalAdvancesTaken - totalSalaryPaid, the
\* two deductions being the sums of the amounts listed in advanceDetails and
\* salaryPaymentDetails
C1_TotalsAddUp ==
    monthlyReport # Null =>
        LET r == monthlyReport IN
        /\ r.totalWagesEarned = r.baseWages + r.additionalEarnings
        /\ r.totalAdvancesTaken =
               Total([i \in DOMAIN r.advanceDetails |-> r.advanceDetails[i].amount])
        /\ r.totalSalaryPaid =
               Total([i \in DOMAIN r.salaryPaymentDetails |->
                          r.salaryPaymentDetails[i].amount])
        /\ r.finalAmount =
               r.totalWagesEarned - r.totalAdvancesTaken - r.totalSalaryPaid

\* a report with an advance and a salary payment and a negative final amount
C1_Witness ==
    /\ monthlyReport # Null
    /\ monthlyReport.advanceDetails # <<>>
    /\ monthlyReport.salaryPaymentDetails # <<>>
    /\ monthlyReport.finalAmount < 0

\* C2: a record of the selected employee dated on the first or the last day
\* of the selected month is in the report's detail list, in every month and
\* under every offset of the host time zone
C2_BoundaryDaysIncluded ==
    monthlyReport # Null =>
        /\ \A i \in DOMAIN attendance :
              (/\ attendance[i].employeeId = selectedEmployee
               /\ OnMonthBoundary(attendance[i].date, selectedMonth))
              => Listed(monthlyReport.attendanceDetails, attendance[i])
        /\ \A i \in DOMAIN advances :
              (/\ advances[i].employeeId = selectedEmployee
               /\ OnMonthBoundary(advances[i].date, selectedMonth))
              => Listed(monthlyReport.advanceDetails, advances[i])
        /\ \A i \in DOMAIN salaryPayments :
              (/\ salaryPayments[i].employeeId = selectedEmployee
               /\ OnMonthBoundary(salaryPayments[i].paymentDate, selectedMonth))
              => Listed(monthlyReport.salaryPaymentDetails, salaryPayments[i])

\* C3: the detail lists hold only records of the selected employee dated in
\* the selected month, and every total is the total of the listed records of
\* that employee and month: no other record changes it
C3_OnlyOwnRecordsOfTheMonth ==
    monthlyReport # Null =>
        LET r == monthlyReport
            ownAttendance ==
                SelectSeq(attendance, LAMBDA a :
                    /\ a.employeeId = selectedEmployee
                    /\ InCalendarMonth(a.date, selectedMonth)
                    /\ Listed(r.attendanceDetails, a))
            ownAdvances ==
                SelectSeq(advances, LAMBDA a :
                    /\ a.employeeId = selectedEmployee
                    /\ InCalendarMonth(a.date, selectedMonth)
                    /\ Listed(r.advanceDetails, a))
            ownPayments ==
                SelectSeq(salaryPayments, LAMBDA q :
                    /\ q.employeeId = selectedEmployee
                    /\ InCalendarMonth(q.paymentDate, selectedMonth)
                    /\ Listed(r.salaryPaymentDetails, q))
        IN
        /\ r.attendanceDetails = ownAttendance
        /\ r.advanceDetails = ownAdvances
        /\ r.salaryPaymentDetails = ownPayments
        /\ \A x \in {r.otRecords, r.halfDayRecords, r.customPaymentRecords} :
              \A i \in DOMAIN x : Listed(ownAttendance, x[i])
        /\ r.totalDaysWorked =
               Cardinality({i \in DOMAIN ownAttendance : ownAttendance[i].present})
        /\ r.additionalEarnings =
               Total([i \in DOMAIN ownAttendance |-> AmountOf(ownAttendance[i])])
        /\ r.totalAdvancesTaken =
               Total([i \in DOMAIN ownAdvances |-> ownAdvances[i].amount])
        /\ r.totalSalaryPaid =
               Total([i \in DOMAIN ownPayments |-> ownPayments[i].amount])

\* a report that lists a record while the ledgers hold a record of the
\* selected employee dated outside the month and a record of somebody else
C3_Witness ==
    /\ monthlyReport # Null
    /\ monthlyReport.attendanceDetails # <<>>
    /\ \/ \E i \in DOMAIN attendance :
             /\ attendance[i].employeeId = selectedEmployee
             /\ ~InCalendarMonth(attendance[i].date, selectedMonth)
       \/ \E i \in DOMAIN advances :
             /\ advances[i].employeeId = selectedEmployee
             /\ ~InCalendarMonth(advances[i].date, selectedMonth)
       \/ \E i \in DOMAIN salaryPayments :
             salaryPayments[i].employeeId # selectedEmployee

\* C4: totalDaysWorked is the number of listed attendance records that are
\* present, and baseWages is that number times the employee's dailyWage
C4_DaysWorkedAndBaseWages ==
    monthlyReport # Null =>
        LET r == monthlyReport IN
        /\ r.totalDaysWorked =
               Cardinality({i \in DOMAIN r.attendanceDetails :
                                r.attendanceDetails[i].present})
        /\ r.baseWages = r.totalDaysWorked * selectedEmployeeData.dailyWage

\* a report that lists a present and an absent record
C4_Witness ==
    /\ monthlyReport # Null
    /\ \E i, j \in DOMAIN monthlyReport.attendanceDetails :
          /\ monthlyReport.attendanceDetails[i].present
          /\ ~monthlyReport.attendanceDetails[j].present

\* C5: additionalEarnings is the sum of the customAmount of every listed
\* attendance record, present or not, a missing amount being zero; so an
\* absent record adds its customAmount to totalWagesEarned and nothing else,
\* and a present record the dailyWage and its customAmount
C5_AdditionalEarnings ==
    monthlyReport # Null =>
        LET r == monthlyReport
            d == r.attendanceDetails
        IN
        /\ r.additionalEarnings = Total([i \in DOMAIN d |-> AmountOf(d[i])])
        /\ r.totalWagesEarned =
               Total([i \in DOMAIN d |->
                          IF d[i].present
                          THEN selectedEmployeeData.dailyWage + AmountOf(d[i])
                          ELSE AmountOf(d[i])])

\* a report that lists an absent record with a customAmount and an absent
\* record without
C5_Witness ==
    /\ monthlyReport # Null
    /\ \E i, j \in DOMAIN monthlyReport.attendanceDetails :
          /\ ~monthlyReport.attendanceDetails[i].present
          /\ monthlyReport.attendanceDetails[i].customAmount # <<>>
          /\ ~monthlyReport.attendanceDetails[j].present
          /\ monthlyReport.attendanceDetails[j].customAmount = <<>>

\* C8: otRecords, halfDayRecords and customPaymentRecords share no record,
\* each holds only records of attendanceDetails, and a record with no
\* customType is in attendanceDetails and in none of the three
C8_CategoryLists ==
    monthlyReport # Null =>
        LET r == monthlyReport
            lists == <<r.otRecords, r.halfDayRecords, r.customPaymentRecords>>
        IN
        /\ \A a, b \in 1..3 :
              a # b => \A i \in DOMAIN lists[a] : ~Listed(lists[b], lists[a][i])
        /\ \A a \in 1..3 : \A i \in DOMAIN lists[a] :
              \E j \in DOMAIN r.attendanceDetails :
                  r.attendanceDetails[j] = lists[a][i]
        /\ \A j \in DOMAIN r.attendanceDetails :
              r.attendanceDetails[j].customType = NoCustomType
                  => \A a \in 1..3 : ~Listed(lists[a], r.attendanceDetails[j])

\* a report that lists a record with no customType and an overtime record
C8_Witness ==
    /\ monthlyReport # Null
    /\ Len(monthlyReport.otRecords) = 1
    /\ \E j \in DOMAIN monthlyReport.attendanceDetails :
          monthlyReport.attendanceDetails[j].customType = NoCustomType

(***************************************************************************)
(* Properties of the component (specification Spec).                       *)
(***************************************************************************)
\* C6: generateMonthlyReport is the absent value for an identifier that
\* matches no employee; while the selected employee is nobody, or nobody of
\* the employees, there is no report and no report panel, and a call of
\* downloadReport saves nothing
C6_UnresolvedEmployee ==
    /\ [](/\ \A id \in {"e1", "e2", "e3", "e9"}, month \in Months :
               (\A i \in DOMAIN employees : employees[i].id # id)
                   => generateMonthlyReport(id, month) = Null
          /\ NoEmployeeResolves => (monthlyReport = Null /\ ~reportPanelShown))
    /\ [][(NoEmployeeResolves /\ lastDownload' # lastDownload)
              => lastDownload' = NothingSaved]_vars

\* an employee is selected that the employees no longer hold, and
\* downloadReport has been called and saved nothing
C6_Witness ==
    /\ selectedEmployee # ""
    /\ NoEmployeeResolves
    /\ lastDownload = NothingSaved

\* C7: while the salary payments load, the report is the report of an empty
\* collection; after the load the report lists every stored payment of the
\* selected employee dated in the selected month, and totalSalaryPaid and
\* finalAmount count them all
C7_ReportAfterLoad ==
    monthlyReport # Null =>
        LET r == monthlyReport
            due == SelectSeq(storedPayments, LAMBDA q :
                       /\ q.employeeId = selectedEmployee
                       /\ InCalendarMonth(q.paymentDate, selectedMonth))
            paid == Total([i \in DOMAIN due |-> due[i].amount])
        IN
        /\ salaryPaymentsLoading =>
              (r.totalSalaryPaid = 0 /\ r.salaryPaymentDetails = <<>>)
        /\ ~salaryPaymentsLoading =>
              /\ r.salaryPaymentDetails = due
              /\ r.totalSalaryPaid = paid
              /\ r.finalAmount = r.totalWagesEarned - r.totalAdvancesTaken - paid

\* C10: filteredEmployees is the sub-sequence of employees, in their order,
\* whose name or designation contains the search term, letters compared
\* without regard to case; the empty term keeps every employee
SameLetter(a, b) ==
    a = b \/ \E i \in DOMAIN UpperCase : {a, b} = {UpperCase[i], LowerCase[i]}

ContainsIgnoringCase(text, term) ==
    \E k \in 0..(Len(text) - Len(term)) :
        \A j \in 1..Len(term) : SameLetter(text[k + j], term[j])

TermFound(i) ==
    \/ ContainsIgnoringCase(employees[i].name, searchTerm)
    \/ ContainsIgnoringCase(employees[i].designation, searchTerm)

C10_FilteredEmployees ==
    LET found == {i \in DOMAIN employees : TermFound(i)}
        \* the index in employees of the k-th employee found
        nth(k) == CHOOSE i \in found :
                      Cardinality({j \in found : j < i}) = k - 1
    IN
    /\ Len(filteredEmployees) = Cardinality(found)
    /\ \A k \in 1..Len(filteredEmployees) : filteredEmployees[k] = employees[nth(k)]
    /\ searchTerm = <<>> => filteredEmployees = employees

\* a term with a capital letter that keeps some employees and drops others
C10_Witness ==
    /\ \E j \in DOMAIN searchTerm : searchTerm[j] = "S"
    /\ filteredEmployees # <<>>
    /\ Len(filteredEmployees) < Len(employees)
    /\ filteredEmployees[1] # employees[1]

(***************************************************************************)
(* Properties of formatBalance (specification SpecFormat).                 *)
(***************************************************************************)
\* C9: formatBalance of zero is the formatted zero with no sign; of any
\* other balance it is "+" and the formatted absolute value, the same text
\* for a balance and its negative, and never with a "-"
C9_FormatBalance ==
    balanceText # <<>> =>
        LET magnitude == IF balance < 0 THEN 0 - balance ELSE balance IN
        /\ balance = 0 => (balanceText = formatCurrency(0) /\ balanceText[1] # "+")
        /\ balance # 0 => balanceText = <<"+">> \o formatCurrency(magnitude)
        /\ balanceText = formatBalance(0 - balance)
        /\ \A i \in DOMAIN balanceText : balanceText[i] # "-"

\* formatBalance has been called with a negative balance
C9_Witness == balance < 0 /\ balanceText # <<>>

(***************************************************************************)
(* Frame properties of the component's operations (specification Spec).    *)
(***************************************************************************)
\* a step of one of the component's own operations: selecting an employee,
\* changing the month, changing the search term, or downloading
ComponentOperation ==
    \/ selectedEmployee' # selectedEmployee
    \/ selectedMonth' # selectedMonth
    \/ searchTerm' # searchTerm
    \/ lastDownload' # lastDownload

\* C11: no operation of the component (selecting an employee, changing the
\* month, changing the search term, downloading, and the report generation
\* each of them triggers) modifies the employees, attendance, advances or
\* salary-payment collections or any record in them
C11_CollectionsNotModified ==
    [][ComponentOperation =>
           UNCHANGED <<employees, attendance, advances, salaryPayments,
                       storedPayments>>]_vars

\* every operation has acted (an employee selected, a term typed, a payslip
\* downloaded) and the collections are those the component was mounted with
C11_Witness ==
    /\ selectedEmployee # ""
    /\ searchTerm # <<>>
    /\ reportPanelShown
    /\ lastDownload = Payslip
    /\ employees = AllEmployees
    /\ attendance = MountedAttendance
    /\ advances = MountedAdvances

(***************************************************************************)
(* Properties of the payslip text (specification Spec).                    *)
(***************************************************************************)
\* the lines of a payslip text after its "Additional Earnings" line and
\* before the "Total Wages Earned" line that follows it
EarningsSubLines(content) ==
    LET from == CHOOSE i \in DOMAIN content : content[i].text = "Additional Earnings"
        to == CHOOSE j \in DOMAIN content :
                  /\ j > from
                  /\ content[j].text = "Total Wages Earned"
                  /\ \A k \in (from + 1)..(j - 1) : content[k].text # "Total Wages Earned"
    IN  SubSeq(content, from + 1, to - 1)

\* the sub-line of a detail list: none for an empty list, and for a
\* non-empty one the line with the list's count and summed customAmount
ExpectedSubLine(text, records) ==
    IF records = <<>>
    THEN <<>>
    ELSE << [text |-> text, count |-> Len(records),
             value |-> formatCurrency(
                 Total([i \in DOMAIN records |-> AmountOf(records[i])]))] >>

\* C12: in the exported payslip text the Overtime, Half Days and Custom
\* Payments sub-lines are each left out, with no line at all in their place,
\* when otRecords, halfDayRecords or customPaymentRecords is empty, and each
\* is present with the count and the summed customAmount of its list when
\* the list is not empty
C12_SubLinesOmitted ==
    (lastDownload.called /\ lastDownload.saved) =>
        EarningsSubLines(lastDownload.reportContent) =
            ExpectedSubLine("Overtime", lastDownload.report.otRecords)
            \o ExpectedSubLine("Half Days", lastDownload.report.halfDayRecords)
            \o ExpectedSubLine("Custom Payments",
                               lastDownload.report.customPaymentRecords)

(***************************************************************************)
(* Reports of consecutive months (specification SpecReport).               *)
(***************************************************************************)
\* the calendar month after a month token
NextMonth(month) ==
    IF month.month = 12
    THEN [year |-> month.year + 1, month |-> 1]
    ELSE [year |-> month.year, month |-> month.month + 1]

\* the records of a list that belong to the employee and are dated, by the
\* date field given, in the month
RecordsDatedIn(list, dateOf(_), employeeId, month) ==
    SelectSeq(list, LAMBDA record : /\ record.employeeId = employeeId
                                    /\ InCalendarMonth(dateOf(record), month))

\* the records of the list dated in either month are listed in the detail
\* list of the month of their date and in no other
CountedInOwnMonth(list, dateOf(_), employeeId, first, second,
                  firstDetails, secondDetails) ==
    \A i \in DOMAIN list :
        (/\ list[i].employeeId = employeeId
         /\ \/ InCalendarMonth(dateOf(list[i]), first)
            \/ InCalendarMonth(dateOf(list[i]), second))
        => /\ Listed(firstDetails, list[i]) <=> InCalendarMonth(dateOf(list[i]), first)
           /\ Listed(secondDetails, list[i]) <=> InCalendarMonth(dateOf(list[i]), second)

\* C13: for the selected employee, the selected month and the month after
\* it, every attendance, advance and salary-payment record dated in either
\* month is counted in the report of the month of its date and in no other,
\* so the two reports' totals add up to the totals over all records dated in
\* the two months
C13_ConsecutiveMonths ==
    monthlyReport # Null =>
        LET first == selectedMonth
            second == NextMonth(selectedMonth)
            r1 == generateMonthlyReport(selectedEmployee, first)
            r2 == generateMonthlyReport(selectedEmployee, second)
            dateOf(record) == record.date
            paymentDateOf(record) == record.paymentDate
            att == RecordsDatedIn(attendance, dateOf, selectedEmployee, first)
                   \o RecordsDatedIn(attendance, dateOf, selectedEmployee, second)
            adv == RecordsDatedIn(advances, dateOf, selectedEmployee, first)
                   \o RecordsDatedIn(advances, dateOf, selectedEmployee, second)
            pay == RecordsDatedIn(salaryPayments, paymentDateOf, selectedEmployee, first)
                   \o RecordsDatedIn(salaryPayments, paymentDateOf, selectedEmployee,
                                     second)
        IN
        /\ CountedInOwnMonth(attendance, dateOf, selectedEmployee, first, second,
                             r1.attendanceDetails, r2.attendanceDetails)
        /\ CountedInOwnMonth(advances, dateOf, selectedEmployee, first, second,
                             r1.advanceDetails, r2.advanceDetails)
        /\ CountedInOwnMonth(salaryPayments, paymentDateOf, selectedEmployee,
                             first, second,
                             r1.salaryPaymentDetails, r2.salaryPaymentDetails)
        /\ r1.totalDaysWorked + r2.totalDaysWorked =
               Total([i \in DOMAIN att |-> IF att[i].present THEN 1 ELSE 0])
        /\ r1.additionalEarnings + r2.additionalEarnings =
               Total([i \in DOMAIN att |-> AmountOf(att[i])])
        /\ r1.totalAdvancesTaken + r2.totalAdvancesTaken =
               Total([i \in DOMAIN adv |-> adv[i].amount])
        /\ r1.totalSalaryPaid + r2.totalSalaryPaid =
               Total([i \in DOMAIN pay |-> pay[i].amount])

(***************************************************************************)
(* The breakdown of the additional earnings (specification SpecReport).    *)
(***************************************************************************)
\* the customAmount total of a detail list
CategoryTotal(records) == Total([i \in DOMAIN records |-> AmountOf(records[i])])

\* C14: in every report additionalEarnings is the sum of the customAmount
\* totals of otRecords, halfDayRecords and customPaymentRecords, so the
\* Overtime, Half Days and Custom Payments amounts add up to the Additional
\* Earnings amount shown with them
C14_BreakdownAddsUp ==
    monthlyReport # Null =>
        monthlyReport.additionalEarnings =
            CategoryTotal(monthlyReport.otRecords)
            + CategoryTotal(monthlyReport.halfDayRecords)
            + CategoryTotal(monthlyReport.customPaymentRecords)

(***************************************************************************)
(* The search term and the selection (specification Spec).                 *)
(***************************************************************************)
\* the selected employee is not among the cards of the employee grid
SelectedNotInGrid ==
    /\ selectedEmployee # ""
    /\ \A i \in DOMAIN filteredEmployees : filteredEmployees[i].id # selectedEmployee

\* C15: a change of the search term leaves the selected employee, the
\* selected month and everything the displayed report is generated from
\* unchanged; selectedEmployee changes only by selecting a card of the grid
\* and selectedMonth only by changing the month; and whatever the search
\* term, also when the selected employee is not in the grid, the panel shows
\* the report of the selected employee and downloadReport saves the payslip
\* of that employee and report
C15_SearchKeepsSelection ==
    /\ [](~NoEmployeeResolves =>
              /\ reportPanelShown
              /\ selectedEmployeeData.id = selectedEmployee
              /\ monthlyReport.employeeId = selectedEmployee
              /\ monthlyReport.month = selectedMonth)
    /\ [][ /\ searchTerm' # searchTerm =>
                  UNCHANGED <<selectedEmployee, selectedMonth, utcOffset, employees,
                              attendance, advances, salaryPayments>>
           /\ selectedEmployee' # selectedEmployee =>
                  /\ \E i \in DOMAIN filteredEmployees :
                         selectedEmployee' = filteredEmployees[i].id
                  /\ UNCHANGED <<searchTerm, selectedMonth>>
           /\ selectedMonth' # selectedMonth =>
                  UNCHANGED <<searchTerm, selectedEmployee>>
           /\ (lastDownload' # lastDownload /\ ~NoEmployeeResolves) =>
                  /\ lastDownload'.saved
                  /\ lastDownload'.employee.id = selectedEmployee
                  /\ lastDownload'.report = monthlyReport
         ]_vars

\* a search term is typed that the selected employee does not match, the
\* panel shows that employee's report and the payslip saved is that report's
C15_Witness ==
    /\ searchTerm # <<>>
    /\ SelectedNotInGrid
    /\ filteredEmployees # <<>>
    /\ reportPanelShown
    /\ lastDownload.called
    /\ lastDownload.saved
    /\ lastDownload.employee.id = selectedEmployee
    /\ lastDownload.report = monthlyReport

====
